---- MODULE Spec2Model ----
(***************************************************************************)
(* Model of the gemini-eda CLI extension (packages/eda-cli): the command   *)
(* dispatcher (EdaCli.handleEdaCommand), the commands (EdaCommands), the   *)
(* validator (EdaValidator) and the Yosys output parser (YosysParser).     *)
(*                                                                         *)
(* Abstractions                                                            *)
(*  - Text is a sequence of lines; a line is [kind, val] where kind says   *)
(*    which of the parser's patterns the line matches and val is the       *)
(*    number the pattern captures.                                         *)
(*  - An optional value (null / undefined / absent file) is a sequence of  *)
(*    length at most one: << >> is null, <<v>> is the value v.             *)
(*  - fs.writeFile is atomic: it either replaces the file or throws and    *)
(*    leaves it alone (spec section 5: "atomic-enough whole-file writes"). *)
(*  - Commands are handled one at a time (spec section 5: sequential,      *)
(*    human-driven usage); the events of the synthesis subprocess are an   *)
(*    input of the run command.                                            *)
(*  - YosysParser.isYosysAvailable is modelled by the boolean it returns.  *)
(***************************************************************************)
EXTENDS Integers, Sequences, FiniteSets, TLC

\* ------------------------------------------------------------------ bounds
\* cells / levels / warning numbers printed by the tool are in 0..MaxMetric
MaxMetric == 1
\* a session handles at most MaxClock commands (the clock ticks per command)
MaxClock == 4
\* a child followed event by event writes at most MaxChunks chunks
MaxChunks == 2
\* an output handed to the parser on its own has at most MaxLines lines of
\* stdout (and at most one of stderr)
MaxLines == 3
\* the files found in recipes/ were modified at the ticks 0..MaxMtime
MaxMtime == 1
\* a command line handed to parseArgs on its own has at most MaxTokens tokens
MaxTokens == 4

\* ---------------------------------------------------------------- options
Null == << >>
Some(v) == <<v>>
IsNull(o) == o = << >>
Val(o) == o[1]

\* parseInt result for a token that does not start with a digit
NaN == -1

\* ------------------------------------------------------------------- text
CellsLine(n) == [kind |-> "cells", val |-> n]
LevelsLine(n) == [kind |-> "levels", val |-> n]
AreaLine(n) == [kind |-> "area", val |-> n]
WarningLine(n) == [kind |-> "warning", val |-> n]
OtherLine(n) == [kind |-> "other", val |-> n]

\* the line "--- STDERR ---" of the log file
StderrSeparator == OtherLine(0)
\* error.message of a failed spawn
ErrorMessage == OtherLine(1)

\* a match that takes the last occurrence
LastMatch(text, kind) ==
    LET idx == {i \in 1..Len(text) : text[i].kind = kind}
    IN IF idx = {} THEN 0 ELSE CHOOSE i \in idx : \A j \in idx : i >= j

\* index of the first line of `text` of kind `kind`, 0 when there is none
FirstMatch(text, kind) ==
    LET idx == {i \in 1..Len(text) : text[i].kind = kind}
    IN IF idx = {} THEN 0 ELSE CHOOSE i \in idx : \A j \in idx : i <= j

RECURSIVE SumMatches(_, _)
SumMatches(text, kind) ==
    IF text = << >> THEN 0
    ELSE (IF Head(text).kind = kind THEN Head(text).val ELSE 0)
         + SumMatches(Tail(text), kind)

\* ----------------------------------------------------------------- parser
extractCells(output) ==
    LET m == FirstMatch(output, "cells")
    IN IF m # 0 THEN Some(output[m].val) ELSE Null

\* an extractor that fills in zero for the levels it does not find
extractLevelsZeroFilled(output) ==
    LET m == FirstMatch(output, "levels")
    IN IF m # 0 THEN Some(output[m].val) ELSE Some(0)

extractLevels(output) ==
    LET m == FirstMatch(output, "levels")
    IN IF m # 0 THEN Some(output[m].val) ELSE Null

\* an extractor that reports a missing area as zero
extractAreaZero(output) ==
    LET m == FirstMatch(output, "area")
    IN IF m # 0 THEN Some(output[m].val) ELSE Some(0)

extractArea(output) ==
    LET m == FirstMatch(output, "area")
    IN IF m # 0 THEN Some(output[m].val) ELSE Null

\* an extractor that counts the warning lines
extractWarningsCount(output) ==
    Some(Cardinality({i \in 1..Len(output) : output[i].kind = "warning"}))

extractWarnings(output) == Some(SumMatches(output, "warning"))

\* `${output.stdout}\n${output.stderr}`
CombinedOutput(output) == output.stdout \o output.stderr

parseMetrics(output) ==
    LET combinedOutput == CombinedOutput(output)
        cells == extractCells(combinedOutput)
        levels == extractLevels(combinedOutput)
        area_um2 == extractArea(combinedOutput)
        warnings == extractWarnings(combinedOutput)
    IN IF IsNull(cells) \/ IsNull(levels)
       THEN Null
       ELSE Some([cells |-> Val(cells), levels |-> Val(levels),
                  area_um2 |-> area_um2, warnings |-> warnings])

\* --------------------------------------------------------------- verifier
\* (cellsDelta / baseline.cells) * 100; dividing by zero gives NaN or an
\* infinity in JavaScript, never an exception: the sign that is left is kept
DeltaPct(cellsDelta, baseCells) ==
    IF baseCells = 0
    THEN [finite |-> FALSE, val |-> cellsDelta]
    ELSE [finite |-> TRUE, val |-> (cellsDelta * 100) \div baseCells]

\* a verifier that takes an improvement of one metric for the other
AcceptedEitherOk(baseline, current) ==
    LET levelsOk == current.levels <= baseline.levels
        cellsOk == current.cells <= baseline.cells
    IN levelsOk \/ cellsOk

\* the verification rule: levelsOk && cellsOk
Accepted(baseline, current) ==
    LET levelsOk == current.levels <= baseline.levels
        cellsOk == current.cells <= baseline.cells
    IN levelsOk /\ cellsOk

\* a verifier that subtracts the last run from the baseline
performVerificationBaseMinusNow(baseline, current) ==
    LET cellsDelta == baseline.cells - current.cells
        cellsDeltaPct == DeltaPct(cellsDelta, baseline.cells)
        levelsDelta == baseline.levels - current.levels
        accepted == Accepted(baseline, current)
    IN [accepted |-> accepted,
        cells |-> [base |-> baseline.cells, now |-> current.cells,
                   delta |-> cellsDelta, delta_pct |-> cellsDeltaPct],
        levels |-> [base |-> baseline.levels, now |-> current.levels,
                    delta |-> levelsDelta]]

\* a verifier that refuses to compare against a baseline without cells
performVerificationNonEmptyBase(baseline, current) ==
    LET cellsDelta == current.cells - baseline.cells
        cellsDeltaPct == DeltaPct(cellsDelta, baseline.cells)
        levelsDelta == current.levels - baseline.levels
        accepted == baseline.cells > 0 /\ Accepted(baseline, current)
    IN [accepted |-> accepted,
        cells |-> [base |-> baseline.cells, now |-> current.cells,
                   delta |-> cellsDelta, delta_pct |-> cellsDeltaPct],
        levels |-> [base |-> baseline.levels, now |-> current.levels,
                    delta |-> levelsDelta]]

performVerification(baseline, current) ==
    LET cellsDelta == current.cells - baseline.cells
        cellsDeltaPct == DeltaPct(cellsDelta, baseline.cells)
        levelsDelta == current.levels - baseline.levels
        accepted == Accepted(baseline, current)
    IN [accepted |-> accepted,
        cells |-> [base |-> baseline.cells, now |-> current.cells,
                   delta |-> cellsDelta, delta_pct |-> cellsDeltaPct],
        levels |-> [base |-> baseline.levels, now |-> current.levels,
                    delta |-> levelsDelta]]

\* ------------------------------------------------------------- parseArgs
EmptyOptions == [force |-> FALSE, verbose |-> FALSE, seed |-> Null]

\* parseInt(token, 10) on the tokens of the model
ParseInt(token) ==
    CASE token = "0" -> 0
      [] token = "1" -> 1
      [] token = "2" -> 2
      [] OTHER -> NaN

\* arg.startsWith('--seed=') and the text after the '='
StartsWithSeedEq(arg) == arg \in {"--seed=0", "--seed=1", "--seed=2", "--seed=x"}
AfterEq(arg) ==
    CASE arg = "--seed=0" -> "0"
      [] arg = "--seed=1" -> "1"
      [] arg = "--seed=2" -> "2"
      [] OTHER -> "x"

\* a loop that reads the seed without skipping its value
RECURSIVE ParseLoopKeepingValue(_, _, _, _)
ParseLoopKeepingValue(remaining, i, parsedArgs, options) ==
    IF i > Len(remaining) THEN [args |-> parsedArgs, options |-> options]
    ELSE LET arg == remaining[i] IN
         IF arg = "--force"
         THEN ParseLoopKeepingValue(remaining, i + 1, parsedArgs,
                                    [options EXCEPT !.force = TRUE])
         ELSE IF arg = "--verbose"
         THEN ParseLoopKeepingValue(remaining, i + 1, parsedArgs,
                                    [options EXCEPT !.verbose = TRUE])
         ELSE IF arg = "--seed" /\ i + 1 <= Len(remaining)
         THEN ParseLoopKeepingValue(remaining, i + 1, parsedArgs,
                                    [options EXCEPT !.seed = Some(ParseInt(remaining[i + 1]))])
         ELSE IF StartsWithSeedEq(arg)
         THEN ParseLoopKeepingValue(remaining, i + 1, parsedArgs,
                                    [options EXCEPT !.seed = Some(ParseInt(AfterEq(arg)))])
         ELSE ParseLoopKeepingValue(remaining, i + 1, Append(parsedArgs, arg), options)

\* the for loop of parseArgs, from index i of `remaining`
RECURSIVE ParseLoop(_, _, _, _)
ParseLoop(remaining, i, parsedArgs, options) ==
    IF i > Len(remaining) THEN [args |-> parsedArgs, options |-> options]
    ELSE LET arg == remaining[i] IN
         IF arg = "--force"
         THEN ParseLoop(remaining, i + 1, parsedArgs, [options EXCEPT !.force = TRUE])
         ELSE IF arg = "--verbose"
         THEN ParseLoop(remaining, i + 1, parsedArgs, [options EXCEPT !.verbose = TRUE])
         ELSE IF arg = "--seed" /\ i + 1 <= Len(remaining)
         THEN ParseLoop(remaining, i + 2, parsedArgs,
                        [options EXCEPT !.seed = Some(ParseInt(remaining[i + 1]))])
         ELSE IF StartsWithSeedEq(arg)
         THEN ParseLoop(remaining, i + 1, parsedArgs,
                        [options EXCEPT !.seed = Some(ParseInt(AfterEq(arg)))])
         ELSE ParseLoop(remaining, i + 1, Append(parsedArgs, arg), options)

\* `parts` is args.trim().split(/\s+/) without the empty token of an empty line
parseArgs(parts) ==
    LET command == IF parts = << >> THEN "" ELSE parts[1]
        remaining == IF parts = << >> THEN << >> ELSE Tail(parts)
        parsed == ParseLoop(remaining, 1, << >>, EmptyOptions)
    IN [command |-> command, args |-> parsed.args, options |-> parsed.options]

\* ------------------------------------------------------------------ state
VARIABLES
    rtlDir,         \* rtl/: "missing", "dir" or "file"
    recipesDir,     \* recipes/: "missing", "dir" or "file"
    buildDir,       \* build/: "missing", "dir" or "file"
    edaDirs,        \* .gemini_eda/, its logs/ and last_run/ exist
    recipeFile,     \* recipes/synth_resyn2.ys: Null or Some(content)
    recipeMtime,    \* fs.stat(recipes/synth_resyn2.ys).mtime, 0 while it is missing
    recipeEntries,  \* the other entries of recipes/, in the order of fs.readdir
    baselineFile,   \* .gemini_eda/baseline.json: Null or Some(text)
    resultFile,     \* .gemini_eda/last_run/result.json: Null or Some(text)
    logFile,        \* .gemini_eda/logs/yosys.log: Null or Some(text)
    processExitCode, \* process.exitCode: Null (undefined) or Some(n)
    lastResult,     \* the result of the command handled last, as displayed
    lastLine,       \* the command line handled last
    spawned,        \* argument lists of the yosys runs spawned by that command
    clock,          \* Date.now(): one tick per handled command
    child,          \* the closure of a runYosys call followed event by event
    events,         \* the events the child of that call emits, in order
    delivered,      \* how many of them its handlers have received
    argument,       \* the argument of a function called on its own: Null or Some(a)
    returned        \* what that call returned: Null before the call, then Some(r)

vars == <<rtlDir, recipesDir, buildDir, edaDirs, recipeFile, recipeMtime, recipeEntries, baselineFile,
          resultFile, logFile, processExitCode, lastResult, lastLine, spawned, clock,
          child, events, delivered, argument, returned>>

dirVars == <<rtlDir, recipesDir, buildDir, edaDirs, recipeEntries>>
procVars == <<child, events, delivered>>
callVars == <<argument, returned>>

PathKinds == {"missing", "dir", "file"}

\* the path join(context.recipesDir, "synth_resyn2.ys")
DefaultRecipePath == "recipes/synth_resyn2.ys"
DEFAULT_RECIPE_CONTENT == "default"

\* JSON.stringify / JSON.parse of a record of the model: the text of a valid
\* document holds its value; every value the commands write survives the trip
JsonStringify(v) == [valid |-> TRUE, value |-> Some(v)]
JsonValid(text) == text.valid
JsonParse(text) == Val(text.value)

\* fs.stat(path) on the paths of the model
Stat(path) ==
    CASE path = "rtl" -> rtlDir
      [] path = "recipes" -> recipesDir
      [] path = "build" -> buildDir
      [] path = DefaultRecipePath ->
            IF recipesDir = "dir" /\ ~IsNull(recipeFile) THEN "file" ELSE "missing"
      [] OTHER -> "missing"

\* EdaValidator.fileExists of an optional file of the model
fileExists(file) == ~IsNull(file)

validateRecipeFile(recipePath) ==
    LET kind == Stat(recipePath)
        errors == IF kind = "missing" THEN <<"Recipe file not found">>
                  ELSE IF kind # "file" THEN <<"exists but is not a file">>
                  ELSE << >>
    IN [valid |-> errors = << >>, errors |-> errors, warnings |-> << >>]

\* a validation that only warns about a recipes path that is a file
validateDirectoryStructureLenient ==
    LET rtlErrors == IF rtlDir = "missing" THEN <<"rtl/ directory not found">>
                     ELSE IF rtlDir # "dir" THEN <<"rtl exists but is not a directory">>
                     ELSE << >>
        recipesWarnings == IF recipesDir = "missing"
                           THEN <<"recipes/ directory not found">>
                           ELSE IF recipesDir = "file"
                           THEN <<"recipes exists but is not a directory">>
                           ELSE << >>
        buildWarnings == IF buildDir = "file"
                         THEN <<"build exists but is not a directory">>
                         ELSE << >>
    IN [valid |-> Len(rtlErrors) = 0, errors |-> rtlErrors,
        warnings |-> recipesWarnings \o buildWarnings]

validateDirectoryStructure ==
    LET rtlErrors == IF rtlDir = "missing" THEN <<"rtl/ directory not found">>
                     ELSE IF rtlDir # "dir" THEN <<"rtl exists but is not a directory">>
                     ELSE << >>
        recipesErrors == IF recipesDir = "file"
                         THEN <<"recipes exists but is not a directory">>
                         ELSE << >>
        recipesWarnings == IF recipesDir = "missing"
                           THEN <<"recipes/ directory not found">>
                           ELSE << >>
        buildWarnings == IF buildDir = "file"
                         THEN <<"build exists but is not a directory">>
                         ELSE << >>
        errors == rtlErrors \o recipesErrors
    IN [valid |-> Len(errors) = 0, errors |-> errors,
        warnings |-> recipesWarnings \o buildWarnings]

\* fs.mkdir(dir, {recursive: true}) over edaDir, logsDir, lastRunDir,
\* recipesDir, buildDir in that order; it throws at the first path that
\* exists and is not a directory, the directories before it stay created
ensureDirectories ==
    IF recipesDir = "file"
    THEN [ok |-> FALSE, edaDirs |-> TRUE, recipesDir |-> recipesDir, buildDir |-> buildDir]
    ELSE IF buildDir = "file"
    THEN [ok |-> FALSE, edaDirs |-> TRUE, recipesDir |-> "dir", buildDir |-> buildDir]
    ELSE [ok |-> TRUE, edaDirs |-> TRUE, recipesDir |-> "dir", buildDir |-> "dir"]

\* --------------------------------------------------------------- runYosys
\* an argument list that takes the seed 0 for no seed
YosysArgsTruthy(scriptPath, seed) ==
    <<"-s", scriptPath>>
    \o (IF ~IsNull(seed) /\ Val(seed) # 0 /\ Val(seed) # NaN
        THEN <<"-p", "abc -script +resyn2 -seed", Val(seed)>>
        ELSE << >>)

\* the argument list handed to spawn('yosys', args, ...)
YosysArgs(scriptPath, seed) ==
    <<"-s", scriptPath>>
    \o (IF ~IsNull(seed)
        THEN <<"-p", "abc -script +resyn2 -seed", Val(seed)>>
        ELSE << >>)

\* events of the child process, in the order they are emitted
DataEvent(stream, data) == [type |-> stream, data |-> data, code |-> Null, signal |-> Null]
CloseEvent(code, signal) == [type |-> "close", data |-> << >>, code |-> code, signal |-> signal]
ErrorEvent == [type |-> "error", data |-> << >>, code |-> Null, signal |-> Null]

\* the closure of runYosys before the first event
NewChild == [stdout |-> << >>, stderr |-> << >>, settled |-> Null]

\* code || 0
CodeOrZero(code) == IF IsNull(code) \/ Val(code) = 0 THEN 0 ELSE Val(code)

\* a promise that every call of resolve settles again
ResolveAgain(c, value) == [c EXCEPT !.settled = Some(value)]

\* resolve(value): only the first call settles the promise
Resolve(c, value) ==
    IF IsNull(c.settled) THEN [c EXCEPT !.settled = Some(value)] ELSE c

OnStdoutData(c, data) == [c EXCEPT !.stdout = @ \o data]

OnStderrData(c, data) == [c EXCEPT !.stderr = @ \o data]

OnClose(c, code) ==
    Resolve(c, [stdout |-> c.stdout, stderr |-> c.stderr,
                    exitCode |-> CodeOrZero(code)])

OnError(c) ==
    Resolve(c, [stdout |-> c.stdout, stderr |-> <<ErrorMessage>>,
                    exitCode |-> 1])

OnEvent(c, e) ==
    CASE e.type = "stdout" -> OnStdoutData(c, e.data)
      [] e.type = "stderr" -> OnStderrData(c, e.data)
      [] e.type = "close" -> OnClose(c, e.code)
      [] OTHER -> OnError(c)

RECURSIVE Deliver(_, _)
Deliver(c, trace) ==
    IF trace = << >> THEN c
    ELSE Deliver(OnEvent(c, Head(trace)), Tail(trace))

\* the value the promise of runYosys settles to when the child emits `trace`
runYosys(trace) == Val(Deliver(NewChild, trace).settled)

\* ------------------------------------------------- the subprocess as input
Metrics == 0..MaxMetric

\* the statistics report of the tool, printed in one write
StatChunks ==
    {<<CellsLine(c), LevelsLine(l)>> : c \in Metrics, l \in Metrics}

\* how a child ends: it exits with a code; it is killed by a signal (the
\* 30 minute timeout of spawn sends SIGTERM), code null; it cannot be started
\* ('error', then 'close')
Endings ==
    {<<CloseEvent(Some(c), Null)>> : c \in 0..1}
    \cup {<<CloseEvent(Null, Some("SIGTERM"))>>}
    \cup {<<ErrorEvent, CloseEvent(Some(1), Null)>>}

\* the children of a session: silent, or printing one statistics report
SessionTraces ==
    {d \o e : d \in {<< >>} \cup {<<DataEvent("stdout", c)>> : c \in StatChunks},
              e \in Endings}

\* the children that exit with code 0
CleanTraces == {t \in SessionTraces : t[Len(t)] = CloseEvent(Some(0), Null)}

\* the chunks of a child followed event by event: a statistics report on
\* stdout, a warning on stderr
ProcData ==
    {DataEvent("stdout", c) : c \in StatChunks}
    \cup {DataEvent("stderr", <<WarningLine(1)>>)}

RECURSIVE DataSeqs(_)
DataSeqs(n) ==
    IF n = 0 THEN {<< >>}
    ELSE LET shorter == DataSeqs(n - 1)
         IN shorter \cup {Append(d, e) : d \in shorter, e \in ProcData}

ProcTraces == {d \o e : d \in DataSeqs(MaxChunks), e \in Endings}

TimedOut(trace) ==
    \E i \in 1..Len(trace) :
        trace[i].type = "close" /\ trace[i].signal = Some("SIGTERM")

\* --------------------------------------------------------------- commands
\* an EdaCommandResult; message is the lines of the message, exitCode is
\* Null when the field is left out
Outcome(success, message, exitCode, data) ==
    [success |-> success, message |-> message, exitCode |-> exitCode, data |-> data]

Failure(message) == Outcome(FALSE, message, Some(1), Null)
Success(message, data) == Outcome(TRUE, message, Null, data)

MsgNoBaseline == <<"No baseline found. Run /eda:baseline:seed after a successful /eda:run.">>
MsgNoLastRun == <<"No last run found. Run /eda:run first.">>
MsgYosysNotFound == <<"Yosys not found. Please install Yosys and ensure it is on your PATH.">>
MsgParseFailed == <<"Failed to parse Yosys output. Check the log file for details.">>
MsgRecipeExists == <<"synth_resyn2.ys already exists. Use /eda:recipe:init --force to overwrite.">>

\* the end of handleEdaCommand: the result is displayed, process.exitCode is
\* set when the command failed with a truthy exitCode
NextExitCode(result) ==
    IF ~result.success /\ ~IsNull(result.exitCode) /\ Val(result.exitCode) # 0
    THEN result.exitCode
    ELSE processExitCode

Display(line, result) ==
    /\ clock' = clock + 1
    /\ lastLine' = line
    /\ lastResult' = Some(result)
    /\ processExitCode' = NextExitCode(result)
    /\ UNCHANGED procVars
    /\ UNCHANGED callVars

help(line) ==
    /\ Display(line, Success(<<"EDA Commands:">>, Null))
    /\ spawned' = << >>
    /\ UNCHANGED <<dirVars, recipeFile, recipeMtime, baselineFile, resultFile, logFile>>

\* the mtime a write stamps on the default recipe: later than that of every
\* entry recipes/ holds, the first tick in an empty directory
WriteMtime ==
    LET times == {recipeEntries[i].mtime : i \in DOMAIN recipeEntries}
                 \cup (IF fileExists(recipeFile) THEN {recipeMtime} ELSE {})
    IN IF times = {} THEN 0
       ELSE (CHOOSE t \in times : \A u \in times : u <= t) + 1

\* a recipe init that writes the template whatever is there
recipeInitOverwriting(line, options) ==
    LET dirs == ensureDirectories IN
    /\ spawned' = << >>
    /\ edaDirs' = dirs.edaDirs
    /\ recipesDir' = dirs.recipesDir
    /\ UNCHANGED recipeEntries
    /\ buildDir' = dirs.buildDir
    /\ UNCHANGED <<rtlDir, baselineFile, resultFile, logFile>>
    /\ IF dirs.ok
       THEN /\ recipeFile' = Some(DEFAULT_RECIPE_CONTENT)
            /\ recipeMtime' = WriteMtime
            /\ Display(line, Success(<<"Created", DefaultRecipePath>>, Null))
       ELSE /\ UNCHANGED <<recipeFile, recipeMtime>>
            /\ Display(line, Failure(<<"Error creating recipe:">>))

recipeInit(line, options) ==
    LET dirs == ensureDirectories
        exists == dirs.recipesDir = "dir" /\ fileExists(recipeFile)
    IN
    /\ spawned' = << >>
    /\ edaDirs' = dirs.edaDirs
    /\ recipesDir' = dirs.recipesDir
    /\ UNCHANGED recipeEntries
    /\ buildDir' = dirs.buildDir
    /\ UNCHANGED <<rtlDir, baselineFile, resultFile, logFile>>
    /\ \/ /\ ~dirs.ok
          /\ Display(line, Failure(<<"Error creating recipe:">>))
          /\ UNCHANGED <<recipeFile, recipeMtime>>
       \/ /\ dirs.ok /\ exists /\ ~options.force
          /\ Display(line, Failure(MsgRecipeExists))
          /\ UNCHANGED <<recipeFile, recipeMtime>>
       \/ /\ dirs.ok /\ (~exists \/ options.force)
          /\ \/ /\ recipeFile' = Some(DEFAULT_RECIPE_CONTENT)
                /\ recipeMtime' = WriteMtime
                /\ Display(line, Success(<<"Created", DefaultRecipePath>>, Null))
             \/ /\ UNCHANGED <<recipeFile, recipeMtime>>      \* fs.writeFile throws
                /\ Display(line, Failure(<<"Error creating recipe:">>))

\* file.endsWith('.ys') on the file names of the model
endsWithYs(file) == file \in {"synth_resyn2.ys", "a.ys", "b.ys"}

\* fs.readdir(context.recipesDir): Null when it throws, else the entries
\* with what fs.stat and fs.readFile give for each
ReadDir ==
    IF recipesDir # "dir" THEN Null
    ELSE Some(recipeEntries
              \o (IF fileExists(recipeFile)
                  THEN <<[name |-> "synth_resyn2.ys", mtime |-> recipeMtime,
                          readable |-> TRUE]>>
                  ELSE << >>))

\* a sort that puts the oldest recipe first
InsertOldestFirst(sorted, recipe) ==
    LET before == Cardinality({i \in DOMAIN sorted :
                                  sorted[i].lastModified <= recipe.lastModified})
    IN SubSeq(sorted, 1, before) \o <<recipe>> \o SubSeq(sorted, before + 1, Len(sorted))

\* one step of the stable sort by b.lastModified - a.lastModified: the
\* recipe goes behind every recipe that is not older than it
InsertNewestFirst(sorted, recipe) ==
    LET before == Cardinality({i \in DOMAIN sorted :
                                  sorted[i].lastModified >= recipe.lastModified})
    IN SubSeq(sorted, 1, before) \o <<recipe>> \o SubSeq(sorted, before + 1, Len(sorted))

RECURSIVE SortRecipes(_)
SortRecipes(recipes) ==
    IF recipes = << >> THEN << >>
    ELSE InsertNewestFirst(SortRecipes(SubSeq(recipes, 1, Len(recipes) - 1)),
                           recipes[Len(recipes)])

\* EdaValidator.listRecipes: the *.ys files that could be read, newest
\* first; the empty list when the directory cannot be read
listRecipes ==
    IF IsNull(ReadDir) THEN << >>
    ELSE LET files == SelectSeq(Val(ReadDir),
                                LAMBDA file : endsWithYs(file.name) /\ file.readable)
         IN SortRecipes([i \in DOMAIN files |->
                           [name |-> files[i].name, lastModified |-> files[i].mtime]])

\* the lines `${index + 1}. ${recipe.name} (...)` of the message, by name
RecipeNames(recipes) == [i \in DOMAIN recipes |-> recipes[i].name]

recipeList(line) ==
    LET recipes == RecipeNames(listRecipes) IN
    /\ spawned' = << >>
    /\ UNCHANGED <<dirVars, recipeFile, recipeMtime, baselineFile, resultFile, logFile>>
    /\ IF Len(recipes) = 0
       THEN Display(line, Success(<<"No recipe files found. Run /eda:recipe:init to create one.">>, Null))
       ELSE Display(line, Success(<<"Available recipes:">> \o recipes, Null))

\* options.seed || null
SeedOrNull(seed) ==
    IF IsNull(seed) \/ Val(seed) = 0 \/ Val(seed) = NaN THEN Null ELSE seed

RunScriptPath(args) == IF Len(args) > 0 THEN args[1] ELSE DefaultRecipePath

\* the EdaResult run assembles (the fields the other commands read)
EdaResult(scriptPath, options, yosysOutput, metrics) ==
    [provenance |-> [timestamp_utc |-> clock],
     run |-> [script_path |-> scriptPath,
              seed |-> SeedOrNull(options.seed),
              exit_code |-> yosysOutput.exitCode],
     metrics |-> metrics]

\* `${result.stdout}\n\n--- STDERR ---\n${result.stderr}`
LogText(yosysOutput) == yosysOutput.stdout \o <<StderrSeparator>> \o yosysOutput.stderr

\* a run that validates the directory structure before the script
RunValidationDirsFirst(scriptPath) ==
    LET scriptValidation == validateRecipeFile(scriptPath)
        dirValidation == validateDirectoryStructure
    IN IF ~dirValidation.valid THEN Some(Failure(dirValidation.errors))
       ELSE IF ~scriptValidation.valid THEN Some(Failure(scriptValidation.errors))
       ELSE Null

\* the failure of the first violated precondition of run, Null when the
\* script and the directory structure are valid
RunValidation(scriptPath) ==
    LET scriptValidation == validateRecipeFile(scriptPath)
        dirValidation == validateDirectoryStructure
    IN IF ~scriptValidation.valid THEN Some(Failure(scriptValidation.errors))
       ELSE IF ~dirValidation.valid THEN Some(Failure(dirValidation.errors))
       ELSE Null

\* a run that drops the baseline when it cannot parse the output
RunParseFailureDropsBaseline(line, yosysOutput) ==
    /\ Display(line, Failure(MsgParseFailed))
    /\ baselineFile' = Null
    /\ UNCHANGED <<resultFile, logFile>>

\* what run does with a captured output it could not parse
RunParseFailure(line, yosysOutput) ==
    /\ Display(line, Failure(MsgParseFailed))
    /\ UNCHANGED <<resultFile, logFile, baselineFile>>

\* what run does with a captured output and its metrics: the two writes,
\* either of which may throw
RunSave(line, edaResult, yosysOutput) ==
    /\ UNCHANGED baselineFile
    /\ \/ /\ resultFile' = Some(JsonStringify(edaResult))
          /\ logFile' = Some(LogText(yosysOutput))
          /\ Display(line, Success(<<"Wrote result.json">>, Some(edaResult)))
       \/ /\ UNCHANGED <<resultFile, logFile>>    \* the result write throws
          /\ Display(line, Failure(<<"Error running Yosys:">>))
       \/ /\ resultFile' = Some(JsonStringify(edaResult))
          /\ UNCHANGED logFile                    \* the log write throws
          /\ Display(line, Failure(<<"Error running Yosys:">>))

\* a run that takes a nonzero exit code for a failed synthesis
RunFinishCheckingExit(line, scriptPath, options, yosysOutput) ==
    LET metrics == parseMetrics(yosysOutput)
    IN IF IsNull(metrics) \/ yosysOutput.exitCode # 0
       THEN RunParseFailure(line, yosysOutput)
       ELSE RunSave(line, EdaResult(scriptPath, options, yosysOutput, Val(metrics)),
                    yosysOutput)

\* run after `await this.runYosys(...)`: parse, then report or save
RunFinish(line, scriptPath, options, yosysOutput) ==
    LET metrics == parseMetrics(yosysOutput)
    IN IF IsNull(metrics)
       THEN RunParseFailure(line, yosysOutput)
       ELSE RunSave(line, EdaResult(scriptPath, options, yosysOutput, Val(metrics)),
                    yosysOutput)

\* a run that starts yosys a second time when the output does not parse
runRetrying(line, args, options, traces) ==
    LET scriptPath == RunScriptPath(args)
        invalid == RunValidation(scriptPath)
        dirs == ensureDirectories
        yosysArgs == YosysArgs(scriptPath, options.seed)
    IN
    /\ UNCHANGED <<rtlDir, recipeFile, recipeMtime, recipeEntries>>
    /\ \/ /\ ~IsNull(invalid)
          /\ Display(line, Val(invalid))
          /\ spawned' = << >>
          /\ UNCHANGED <<recipesDir, buildDir, edaDirs, resultFile, logFile, baselineFile>>
       \/ /\ IsNull(invalid)
          /\ Display(line, Failure(MsgYosysNotFound))
          /\ spawned' = << >>
          /\ UNCHANGED <<recipesDir, buildDir, edaDirs, resultFile, logFile, baselineFile>>
       \/ /\ IsNull(invalid)
          /\ edaDirs' = dirs.edaDirs
          /\ recipesDir' = dirs.recipesDir
          /\ buildDir' = dirs.buildDir
          /\ \/ /\ ~dirs.ok
                /\ Display(line, Failure(<<"Error running Yosys:">>))
                /\ spawned' = << >>
                /\ UNCHANGED <<resultFile, logFile, baselineFile>>
             \/ /\ dirs.ok
                /\ \E trace \in traces :
                     /\ spawned' = (IF IsNull(parseMetrics(runYosys(trace)))
                                    THEN <<yosysArgs, yosysArgs>>
                                    ELSE <<yosysArgs>>)
                     /\ RunFinish(line, scriptPath, options, runYosys(trace))

run(line, args, options, traces) ==
    LET scriptPath == RunScriptPath(args)
        invalid == RunValidation(scriptPath)
        dirs == ensureDirectories
    IN
    /\ UNCHANGED <<rtlDir, recipeFile, recipeMtime, recipeEntries>>
    /\ \/ /\ ~IsNull(invalid)
          /\ Display(line, Val(invalid))
          /\ spawned' = << >>
          /\ UNCHANGED <<recipesDir, buildDir, edaDirs, resultFile, logFile, baselineFile>>
       \/ /\ IsNull(invalid)              \* isYosysAvailable() is false
          /\ Display(line, Failure(MsgYosysNotFound))
          /\ spawned' = << >>
          /\ UNCHANGED <<recipesDir, buildDir, edaDirs, resultFile, logFile, baselineFile>>
       \/ /\ IsNull(invalid)              \* isYosysAvailable() is true
          /\ edaDirs' = dirs.edaDirs
          /\ recipesDir' = dirs.recipesDir
          /\ buildDir' = dirs.buildDir
          /\ \/ /\ ~dirs.ok
                /\ Display(line, Failure(<<"Error running Yosys:">>))
                /\ spawned' = << >>
                /\ UNCHANGED <<resultFile, logFile, baselineFile>>
             \/ /\ dirs.ok
                /\ spawned' = <<YosysArgs(scriptPath, options.seed)>>
                /\ \E trace \in traces :
                     RunFinish(line, scriptPath, options, runYosys(trace))

\* a seeding that mixes up the two metrics
EdaBaselineSwapped(result) ==
    [metrics |-> [result.metrics EXCEPT !.cells = result.metrics.levels,
                                        !.levels = result.metrics.cells],
     timestamp_utc |-> result.provenance.timestamp_utc,
     run_info |-> [script_path |-> result.run.script_path,
                   seed |-> result.run.seed]]

\* a property of a parsed JSON object is defined
Has(object, property) == property \in DOMAIN object

\* a baseline that forgets the seed of the run
EdaBaselineUnseeded(result) ==
    IF Has(result, "metrics")
    THEN [metrics |-> result.metrics,
          timestamp_utc |-> result.provenance.timestamp_utc,
          run_info |-> [script_path |-> result.run.script_path,
                        seed |-> Null]]
    ELSE [timestamp_utc |-> result.provenance.timestamp_utc,
          run_info |-> [script_path |-> result.run.script_path,
                        seed |-> Null]]

\* the EdaBaseline baselineSeed copies out of a result; JSON.stringify
\* drops the metrics property when result.metrics is undefined
EdaBaseline(result) ==
    IF Has(result, "metrics")
    THEN [metrics |-> result.metrics,
          timestamp_utc |-> result.provenance.timestamp_utc,
          run_info |-> [script_path |-> result.run.script_path,
                        seed |-> result.run.seed]]
    ELSE [timestamp_utc |-> result.provenance.timestamp_utc,
          run_info |-> [script_path |-> result.run.script_path,
                        seed |-> result.run.seed]]

\* reading result.provenance.timestamp_utc or result.run.script_path
\* throws a TypeError when the object is undefined
SeedThrows(result) == ~Has(result, "provenance") \/ ~Has(result, "run")

baselineSeed(line) ==
    /\ spawned' = << >>
    /\ UNCHANGED <<dirVars, recipeFile, recipeMtime, resultFile, logFile>>
    /\ \/ /\ ~fileExists(resultFile)
          /\ Display(line, Failure(MsgNoBaseline))
          /\ UNCHANGED baselineFile
       \/ /\ fileExists(resultFile)
          /\ ~JsonValid(Val(resultFile))          \* JSON.parse throws
          /\ Display(line, Failure(<<"Error saving baseline:">>))
          /\ UNCHANGED baselineFile
       \/ /\ fileExists(resultFile)
          /\ JsonValid(Val(resultFile))
          /\ SeedThrows(JsonParse(Val(resultFile)))
          /\ Display(line, Failure(<<"Error saving baseline:">>))
          /\ UNCHANGED baselineFile
       \/ /\ fileExists(resultFile)
          /\ JsonValid(Val(resultFile))
          /\ ~SeedThrows(JsonParse(Val(resultFile)))
          /\ \/ /\ baselineFile' = Some(JsonStringify(EdaBaseline(JsonParse(Val(resultFile)))))
                /\ Display(line, Success(<<"Baseline saved">>, Null))
             \/ /\ UNCHANGED baselineFile         \* fs.writeFile throws
                /\ Display(line, Failure(<<"Error saving baseline:">>))

\* a verify that looks for the last run before the baseline
VerifyMissingFileLastRunFirst ==
    IF ~fileExists(resultFile) THEN Some(Failure(MsgNoLastRun))
    ELSE IF ~fileExists(baselineFile) THEN Some(Failure(MsgNoBaseline))
    ELSE Null

\* the two existence checks of verify: the failure of the first file that
\* is missing, Null when both exist
VerifyMissingFile ==
    IF ~fileExists(baselineFile) THEN Some(Failure(MsgNoBaseline))
    ELSE IF ~fileExists(resultFile) THEN Some(Failure(MsgNoLastRun))
    ELSE Null

\* a metrics object has its two numbers
MetricsComplete(metrics) == Has(metrics, "cells") /\ Has(metrics, "levels")

\* a number read out of a metrics object: undefined counts as NaN in the
\* arithmetic
MetricOrNaN(metrics, property) ==
    IF Has(metrics, property) THEN metrics[property] ELSE NaN

\* performVerification on metrics objects one of which has neither cells
\* nor levels: every difference is NaN and every comparison false
performVerificationNaN(baseline, current) ==
    [accepted |-> FALSE,
     cells |-> [base |-> MetricOrNaN(baseline, "cells"),
                now |-> MetricOrNaN(current, "cells"),
                delta |-> NaN,
                delta_pct |-> [finite |-> FALSE, val |-> 0]],
     levels |-> [base |-> MetricOrNaN(baseline, "levels"),
                 now |-> MetricOrNaN(current, "levels"),
                 delta |-> NaN]]

\* a verify that makes an accepted run the new baseline
verifyRatcheting(line) ==
    /\ spawned' = << >>
    /\ UNCHANGED <<dirVars, recipeFile, recipeMtime, resultFile, logFile>>
    /\ IF ~IsNull(VerifyMissingFile)
       THEN Display(line, Val(VerifyMissingFile)) /\ UNCHANGED baselineFile
       ELSE IF ~JsonValid(Val(baselineFile)) \/ ~JsonValid(Val(resultFile))
       THEN Display(line, Failure(<<"Error during verification:">>)) /\ UNCHANGED baselineFile
       ELSE LET baseline == JsonParse(Val(baselineFile))
                result == JsonParse(Val(resultFile))
                verification == performVerification(baseline.metrics, result.metrics)
            IN /\ Display(line, Outcome(verification.accepted,
                                        <<IF verification.accepted THEN "Accepted" ELSE "Rejected">>,
                                        Some(IF verification.accepted THEN 0 ELSE 1),
                                        Some(verification)))
               /\ baselineFile' = (IF verification.accepted
                                   THEN Some(JsonStringify(EdaBaseline(result)))
                                   ELSE baselineFile)

verify(line) ==
    /\ spawned' = << >>
    /\ UNCHANGED <<dirVars, recipeFile, recipeMtime, baselineFile, resultFile, logFile>>
    /\ IF ~IsNull(VerifyMissingFile)
       THEN Display(line, Val(VerifyMissingFile))
       ELSE IF ~JsonValid(Val(baselineFile)) \/ ~JsonValid(Val(resultFile))
       THEN Display(line, Failure(<<"Error during verification:">>))
       ELSE IF \/ ~Has(JsonParse(Val(baselineFile)), "metrics")
               \/ ~Has(JsonParse(Val(resultFile)), "metrics")
       THEN Display(line, Failure(<<"Error during verification:">>))  \* TypeError
       ELSE LET baseline == JsonParse(Val(baselineFile))
                result == JsonParse(Val(resultFile))
                verification ==
                    IF MetricsComplete(baseline.metrics) /\ MetricsComplete(result.metrics)
                    THEN performVerification(baseline.metrics, result.metrics)
                    ELSE performVerificationNaN(baseline.metrics, result.metrics)
            IN Display(line, Outcome(verification.accepted,
                                     <<IF verification.accepted THEN "Accepted" ELSE "Rejected">>,
                                     Some(IF verification.accepted THEN 0 ELSE 1),
                                     Some(verification)))

\* reading result.run.script_path, result.metrics.cells or
\* result.provenance.timestamp_utc throws a TypeError when the object is
\* undefined
LastThrows(result) ==
    ~Has(result, "run") \/ ~Has(result, "metrics") \/ ~Has(result, "provenance")

last(line) ==
    /\ spawned' = << >>
    /\ UNCHANGED <<dirVars, recipeFile, recipeMtime, baselineFile, resultFile, logFile>>
    /\ IF ~fileExists(resultFile)
       THEN Display(line, Failure(MsgNoLastRun))
       ELSE IF ~JsonValid(Val(resultFile))
       THEN Display(line, Failure(<<"Error reading last run:">>))
       ELSE IF LastThrows(JsonParse(Val(resultFile)))
       THEN Display(line, Failure(<<"Error reading last run:">>))
       ELSE Display(line, Success(<<"Last Run Summary:">>, Some(JsonParse(Val(resultFile)))))

unknown(line, message) ==
    /\ Display(line, Failure(message))
    /\ spawned' = << >>
    /\ UNCHANGED <<dirVars, recipeFile, recipeMtime, baselineFile, resultFile, logFile>>

\* ------------------------------------------------------------- dispatcher
\* the session goes on: the operator types at most MaxClock command lines
Running == clock < MaxClock

handleEdaCommand(line, traces) ==
    LET parsed == parseArgs(line)
        command == parsed.command
        commandArgs == parsed.args
        options == parsed.options
        sub == IF Len(commandArgs) > 0 THEN commandArgs[1] ELSE ""
    IN
    \/ Running /\ command = "help" /\ help(line)
    \/ Running /\ command = "recipe" /\ sub = "init" /\ recipeInit(line, options)
    \/ Running /\ command = "recipe" /\ sub = "list" /\ recipeList(line)
    \/ Running /\ command = "recipe" /\ sub \notin {"init", "list"}
         /\ unknown(line, <<"Unknown recipe command. Use /eda:recipe:init or /eda:recipe:list.">>)
    \/ Running /\ command = "run" /\ run(line, commandArgs, options, traces)
    \/ Running /\ command = "baseline" /\ sub = "seed" /\ baselineSeed(line)
    \/ Running /\ command = "baseline" /\ sub # "seed"
         /\ unknown(line, <<"Unknown baseline command. Use /eda:baseline:seed.">>)
    \/ Running /\ command = "verify" /\ verify(line)
    \/ Running /\ command = "last" /\ last(line)
    \/ Running /\ command \notin {"help", "recipe", "run", "baseline", "verify", "last"}
         /\ unknown(line, <<"Unknown EDA command:", command>>)

\* the command lines an operator types
CommandLines ==
    { <<"help">>,
      <<"recipe", "init">>, <<"recipe", "list">>, <<"recipe">>,
      <<"run">>,
      <<"baseline", "seed">>, <<"baseline">>,
      <<"verify">>, <<"last">>,
      <<"frobnicate">> }

\* ---------------------------------------------------------- specification
\* a project directory the extension has not been used in yet
Init ==
    /\ rtlDir \in PathKinds
    /\ recipesDir \in PathKinds
    /\ buildDir \in PathKinds
    /\ recipeFile \in (IF recipesDir = "dir" THEN {Null, Some(DEFAULT_RECIPE_CONTENT)} ELSE {Null})
    /\ recipeMtime = 0
    /\ recipeEntries = << >>
    /\ edaDirs = FALSE
    /\ baselineFile = Null
    /\ resultFile = Null
    /\ logFile = Null
    /\ processExitCode = Null
    /\ lastResult = Null
    /\ lastLine = << >>
    /\ spawned = << >>
    /\ clock = 0
    /\ child = NewChild
    /\ events = << >>
    /\ delivered = 0
    /\ argument = Null
    /\ returned = Null

Next == \E line \in CommandLines : handleEdaCommand(line, SessionTraces)

Spec == Init /\ [][Next]_vars

\* a project directory found with files an earlier session left in it (a
\* baseline under version control, a last run whose baseline was removed)
FoundResults ==
    {[provenance |-> [timestamp_utc |-> 0],
      run |-> [script_path |-> DefaultRecipePath, seed |-> Null, exit_code |-> 0],
      metrics |-> [cells |-> c, levels |-> l, area_um2 |-> Null, warnings |-> Some(0)]] :
        c \in Metrics, l \in Metrics}

InitFound ==
    /\ rtlDir = "dir"
    /\ recipesDir = "dir"
    /\ buildDir = "dir"
    /\ recipeFile = Some(DEFAULT_RECIPE_CONTENT)
    /\ recipeMtime = 0
    /\ recipeEntries = << >>
    /\ edaDirs = TRUE
    /\ baselineFile \in {Null} \cup {Some(JsonStringify(EdaBaseline(r))) : r \in FoundResults}
    /\ resultFile \in {Null} \cup {Some(JsonStringify(r)) : r \in FoundResults}
    /\ logFile = Null
    /\ processExitCode = Null
    /\ lastResult = Null
    /\ lastLine = << >>
    /\ spawned = << >>
    /\ clock = 0
    /\ child = NewChild
    /\ events = << >>
    /\ delivered = 0
    /\ argument = Null
    /\ returned = Null

NextFound == \E line \in CommandLines : handleEdaCommand(line, CleanTraces)

SpecFound == InitFound /\ [][NextFound]_vars

\* ------------------------------------- persisted records of every shape
\* the results an earlier session may have written, with and without a seed
RecordResults ==
    {[provenance |-> [timestamp_utc |-> 0],
      run |-> [script_path |-> DefaultRecipePath, seed |-> sd, exit_code |-> 0],
      metrics |-> [cells |-> c, levels |-> l, area_um2 |-> Null, warnings |-> Some(0)]] :
        c \in Metrics, l \in Metrics, sd \in {Null, Some(1)}}

\* JSON objects that are no EdaResult: metrics without cells and levels, no
\* metrics at all, the empty object
MalformedResults ==
    {[provenance |-> [timestamp_utc |-> 0],
      run |-> [script_path |-> DefaultRecipePath, seed |-> Null, exit_code |-> 0],
      metrics |-> [area_um2 |-> Null, warnings |-> Some(0)]],
     [provenance |-> [timestamp_utc |-> 0],
      run |-> [script_path |-> DefaultRecipePath, seed |-> Null, exit_code |-> 0]],
     << >>}

\* JSON objects that are no EdaBaseline
MalformedBaselines ==
    {[metrics |-> [area_um2 |-> Null, warnings |-> Some(0)],
      timestamp_utc |-> 0,
      run_info |-> [script_path |-> DefaultRecipePath, seed |-> Null]],
     [timestamp_utc |-> 0,
      run_info |-> [script_path |-> DefaultRecipePath, seed |-> Null]]}

\* a file whose content JSON.parse rejects
InvalidJson == [valid |-> FALSE, value |-> Null]

\* a project directory whose build/eda files were left by an earlier
\* session or edited by hand
InitRecords ==
    /\ rtlDir = "dir"
    /\ recipesDir = "dir"
    /\ buildDir = "dir"
    /\ recipeFile = Some(DEFAULT_RECIPE_CONTENT)
    /\ recipeMtime = 0
    /\ recipeEntries = << >>
    /\ edaDirs = TRUE
    /\ baselineFile \in {Null, Some(InvalidJson)}
                        \cup {Some(JsonStringify(EdaBaseline(r))) : r \in RecordResults}
                        \cup {Some(JsonStringify(b)) : b \in MalformedBaselines}
    /\ resultFile \in {Null, Some(InvalidJson)}
                      \cup {Some(JsonStringify(r)) : r \in RecordResults \cup MalformedResults}
    /\ logFile = Null
    /\ processExitCode = Null
    /\ lastResult = Null
    /\ lastLine = << >>
    /\ spawned = << >>
    /\ clock = 0
    /\ child = NewChild
    /\ events = << >>
    /\ delivered = 0
    /\ argument = Null
    /\ returned = Null

\* the children of these sessions print nothing and exit with code 0
SilentTraces == {<<CloseEvent(Some(0), Null)>>}

NextRecords == \E line \in CommandLines : handleEdaCommand(line, SilentTraces)

SpecRecords == InitRecords /\ [][NextRecords]_vars

\* ------------------------------------------- a recipes directory in use
\* what recipes/ may hold besides the default recipe: scripts, a script
\* that cannot be read, a file with another extension
RecipeFiles ==
    {[name |-> "a.ys", mtime |-> t, readable |-> r] : t \in 0..MaxMtime, r \in BOOLEAN}
    \cup {[name |-> "b.ys", mtime |-> t, readable |-> TRUE] : t \in 0..MaxMtime}
    \cup {[name |-> "c.ys.bak", mtime |-> 0, readable |-> TRUE]}

\* at most two of them, under different names, in any order
RecipeDirs ==
    {<< >>} \cup {<<f>> : f \in RecipeFiles}
    \cup {<<pair[1], pair[2]>> :
             pair \in {p \in RecipeFiles \X RecipeFiles : p[1].name # p[2].name}}

\* the operator may also force the default recipe
RecipeLines == CommandLines \cup {<<"recipe", "init", "--force">>}

\* a project whose recipes the operator has been editing
InitRecipe ==
    /\ rtlDir = "dir"
    /\ recipesDir \in PathKinds
    /\ buildDir = "dir"
    /\ recipeFile \in (IF recipesDir = "dir"
                       THEN {Null, Some(DEFAULT_RECIPE_CONTENT), Some("custom")}
                       ELSE {Null})
    /\ recipeMtime \in (IF fileExists(recipeFile) THEN 0..MaxMtime ELSE {0})
    /\ recipeEntries \in (IF recipesDir = "dir" THEN RecipeDirs ELSE {<< >>})
    /\ edaDirs = FALSE
    /\ baselineFile = Null
    /\ resultFile = Null
    /\ logFile = Null
    /\ processExitCode = Null
    /\ lastResult = Null
    /\ lastLine = << >>
    /\ spawned = << >>
    /\ clock = 0
    /\ child = NewChild
    /\ events = << >>
    /\ delivered = 0
    /\ argument = Null
    /\ returned = Null

NextRecipe == \E line \in RecipeLines : handleEdaCommand(line, SilentTraces)

SpecRecipe == InitRecipe /\ [][NextRecipe]_vars

\* ------------------------------------------- one run, event by event
\* `/eda:run` in a valid project, at `spawn('yosys', args, ...)`: run waits
\* for the promise of runYosys while the handlers receive the events
InitProc ==
    /\ rtlDir = "dir"
    /\ recipesDir = "dir"
    /\ buildDir = "dir"
    /\ recipeFile = Some(DEFAULT_RECIPE_CONTENT)
    /\ recipeMtime = 0
    /\ recipeEntries = << >>
    /\ edaDirs = TRUE
    /\ baselineFile = Null
    /\ resultFile = Null
    /\ logFile = Null
    /\ processExitCode = Null
    /\ lastResult = Null
    /\ lastLine = << >>
    /\ spawned = <<YosysArgs(RunScriptPath(<< >>), Null)>>
    /\ clock = 0
    /\ child = NewChild
    /\ events \in ProcTraces
    /\ delivered = 0
    /\ argument = Null
    /\ returned = Null

\* the next event reaches its handler; a settled promise resumes run first
ChildEvent ==
    /\ delivered < Len(events)
    /\ IsNull(child.settled) \/ lastLine # << >>
    /\ child' = OnEvent(child, events[delivered + 1])
    /\ delivered' = delivered + 1
    /\ UNCHANGED <<dirVars, recipeFile, recipeMtime, baselineFile, resultFile, logFile,
                   processExitCode, lastResult, lastLine, spawned, clock, events,
                   callVars>>

\* the promise has settled: run goes on after the await
RunResume ==
    /\ lastLine = << >>
    /\ ~IsNull(child.settled)
    /\ RunFinish(<<"run">>, RunScriptPath(<< >>), EmptyOptions, Val(child.settled))
    /\ UNCHANGED <<dirVars, recipeFile, recipeMtime, spawned>>

NextProc == ChildEvent \/ RunResume

SpecProc == InitProc /\ [][NextProc]_vars

\* ------------------------------------------- functions called on their own
\* no command has been handled and no child has been spawned
Idle ==
    /\ rtlDir = "dir"
    /\ recipesDir = "dir"
    /\ buildDir = "dir"
    /\ recipeFile = Some(DEFAULT_RECIPE_CONTENT)
    /\ recipeMtime = 0
    /\ recipeEntries = << >>
    /\ edaDirs = FALSE
    /\ baselineFile = Null
    /\ resultFile = Null
    /\ logFile = Null
    /\ processExitCode = Null
    /\ lastResult = Null
    /\ lastLine = << >>
    /\ spawned = << >>
    /\ clock = 0
    /\ child = NewChild
    /\ events = << >>
    /\ delivered = 0

idleVars == <<dirVars, recipeFile, recipeMtime, baselineFile, resultFile, logFile, processExitCode,
              lastResult, lastLine, spawned, clock, procVars>>

\* the lines of an output handed to the parser: a match of each pattern with
\* each number, and a line no pattern matches
ParseLines ==
    {CellsLine(n) : n \in Metrics} \cup {LevelsLine(n) : n \in Metrics}
    \cup {WarningLine(n) : n \in 1..MaxMetric + 1}
    \cup {AreaLine(0), OtherLine(0)}

RECURSIVE Texts(_)
Texts(n) ==
    IF n = 0 THEN {<< >>}
    ELSE LET shorter == Texts(n - 1)
         IN shorter \cup {Append(t, l) : t \in shorter, l \in ParseLines}

\* an EdaYosysOutput: the parser does not read exitCode
ParseOutputs ==
    {[stdout |-> out, stderr |-> err, exitCode |-> 0] :
        out \in Texts(MaxLines), err \in Texts(1)}

InitParse ==
    /\ Idle
    /\ argument \in {Some(o) : o \in ParseOutputs}
    /\ returned = Null

\* YosysParser.parseMetrics(output)
ParseMetricsCall ==
    /\ ~IsNull(argument)
    /\ IsNull(returned)
    /\ returned' = Some(parseMetrics(Val(argument)))
    /\ UNCHANGED <<idleVars, argument>>

NextParse == ParseMetricsCall

SpecParse == InitParse /\ [][NextParse]_vars

\* --------------------------------------------- parseArgs called on its own
\* the tokens of a command line: a command, a path, numerals, the options
ArgTokens ==
    {"run", "top.ys", "1", "2", "--force", "--verbose", "--seed", "--seed=1", "--seed=x"}

RECURSIVE TokenLines(_)
\* the lines of at most n tokens
TokenLines(n) ==
    IF n = 0 THEN {<< >>}
    ELSE LET shorter == TokenLines(n - 1)
         IN shorter \cup {Append(l, t) : l \in {k \in shorter : Len(k) = n - 1},
                                         t \in ArgTokens}

InitArgs ==
    /\ Idle
    /\ argument \in {Some(l) : l \in TokenLines(MaxTokens)}
    /\ returned = Null

ParseArgsCall ==
    /\ ~IsNull(argument)
    /\ IsNull(returned)
    /\ returned' = Some(parseArgs(Val(argument)))
    /\ UNCHANGED <<idleVars, argument>>

NextArgs == ParseArgsCall

SpecArgs == InitArgs /\ [][NextArgs]_vars

\* ------------------------------------------------------- runs with a seed
\* the operator also runs with --seed, in both spellings, with a number,
\* with something that is no number, with nothing behind it
SeedLines ==
    CommandLines
    \cup {<<"run", "--seed", "0">>, <<"run", "--seed", "1">>, <<"run", "--seed=2">>,
          <<"run", "--seed", "x">>, <<"run", "--seed">>}

InitSeed ==
    /\ Idle
    /\ argument = Null
    /\ returned = Null

NextSeed == \E line \in SeedLines : handleEdaCommand(line, CleanTraces)

SpecSeed == InitSeed /\ [][NextSeed]_vars

\* ------------------------- validateDirectoryStructure called on its own
\* any project directory, used before or not
InitValidate ==
    /\ rtlDir \in PathKinds
    /\ recipesDir \in PathKinds
    /\ buildDir \in PathKinds
    /\ recipeFile \in (IF recipesDir = "dir" THEN {Null, Some(DEFAULT_RECIPE_CONTENT)} ELSE {Null})
    /\ recipeMtime = 0
    /\ recipeEntries = << >>
    /\ edaDirs \in BOOLEAN
    /\ baselineFile = Null
    /\ resultFile = Null
    /\ logFile = Null
    /\ processExitCode = Null
    /\ lastResult = Null
    /\ lastLine = << >>
    /\ spawned = << >>
    /\ clock = 0
    /\ child = NewChild
    /\ events = << >>
    /\ delivered = 0
    /\ argument = Null
    /\ returned = Null

ValidateDirectoryStructureCall ==
    /\ IsNull(returned)
    /\ returned' = Some(validateDirectoryStructure)
    /\ UNCHANGED <<idleVars, argument>>

NextValidate == ValidateDirectoryStructureCall

SpecValidate == InitValidate /\ [][NextValidate]_vars

\* ================================================================= claims
\* the outcome of the command handled last
LastOutcome == Val(lastResult)
BaselineMetrics == JsonParse(Val(baselineFile)).metrics
ResultMetrics == JsonParse(Val(resultFile)).metrics

\* C1: verify reports accepted = true if and only if the last run has no
\* more levels and no more cells than the baseline; an improvement of one
\* metric never makes up for a regression of the other.
C1_VerifyAcceptsIffNoRegression ==
    (lastLine = <<"verify">> /\ fileExists(baselineFile) /\ fileExists(resultFile)) =>
        LET noRegression == /\ ResultMetrics.levels <= BaselineMetrics.levels
                            /\ ResultMetrics.cells <= BaselineMetrics.cells
        IN /\ LastOutcome.success = noRegression
           /\ ~IsNull(LastOutcome.data)
           /\ Val(LastOutcome.data).accepted = noRegression

\* verify rejected a run that has fewer cells and more levels than the baseline
C1_RejectedTradeOff ==
    /\ lastLine = <<"verify">>
    /\ fileExists(baselineFile) /\ fileExists(resultFile)
    /\ ResultMetrics.cells < BaselineMetrics.cells
    /\ ResultMetrics.levels > BaselineMetrics.levels
    /\ ~LastOutcome.success
    /\ ~Val(LastOutcome.data).accepted

\* C2: over any sequence of commands the baseline file changes only in a
\* step that is a successful baseline-seed; no run, successful or failed,
\* creates or modifies it.
C2_BaselineChangesOnlyBySeed ==
    [][baselineFile' # baselineFile =>
          (lastLine' = <<"baseline", "seed">> /\ Val(lastResult').success)]_vars

\* a run succeeded after a seeding and the baseline still holds the metrics
\* of the run before it
C2_RunAfterSeedKeptBaseline ==
    /\ lastLine = <<"run">>
    /\ LastOutcome.success
    /\ fileExists(baselineFile)
    /\ BaselineMetrics # ResultMetrics

\* C3: run is all-or-nothing about the persisted result: when it reports a
\* failure the result file is what it was before the command, when it
\* reports success the result file holds the complete new result.
C3_RunAllOrNothing ==
    [][lastLine' = <<"run">> =>
          IF Val(lastResult').success
          THEN /\ ~IsNull(Val(lastResult').data)
               /\ resultFile' = Some(JsonStringify(Val(Val(lastResult').data)))
          ELSE resultFile' = resultFile]_vars

\* C4: verify without a baseline file fails with the no-baseline message and
\* exit code 1, also when there is no last run either; with a baseline and
\* no last run it fails with the no-last-run message and exit code 1.
C4_VerifyChecksBaselineFirst ==
    lastLine = <<"verify">> =>
        /\ ~fileExists(baselineFile) =>
              /\ LastOutcome = [success |-> FALSE, message |-> MsgNoBaseline,
                                exitCode |-> Some(1), data |-> Null]
              /\ processExitCode = Some(1)
        /\ (fileExists(baselineFile) /\ ~fileExists(resultFile)) =>
              /\ LastOutcome = [success |-> FALSE, message |-> MsgNoLastRun,
                                exitCode |-> Some(1), data |-> Null]
              /\ processExitCode = Some(1)

\* verify was asked with a baseline in place and no last run
C4_BaselineWithoutLastRun ==
    /\ lastLine = <<"verify">>
    /\ fileExists(baselineFile)
    /\ ~fileExists(resultFile)
    /\ LastOutcome.message = MsgNoLastRun

\* C5: baseline-seed without a last run fails with a "No last run found"
\* message, which is not the no-baseline message of verify, and exit code 1,
\* and there is still no baseline.
C5_SeedWithoutLastRunSaysNoLastRun ==
    (lastLine = <<"baseline", "seed">> /\ ~fileExists(resultFile)) =>
        /\ ~LastOutcome.success
        /\ LastOutcome.exitCode = Some(1)
        /\ LastOutcome.message = MsgNoLastRun
        /\ LastOutcome.message # MsgNoBaseline
        /\ ~fileExists(baselineFile)

\* C6: a successful run whose output is one report with cells c and levels l,
\* no area and no warning, persists the metrics {c, l, null, 0}; a successful
\* baseline-seed copies the metrics of the last run; and verify, with a last
\* run of no more cells and the same levels, accepts and reports the cells of
\* the baseline, those of the last run and their difference.
C6_EndToEnd ==
    /\ (lastLine = <<"run">> /\ LastOutcome.success) =>
          \A c, l \in Metrics :
              logFile = Some(<<CellsLine(c), LevelsLine(l), StderrSeparator>>) =>
                  /\ fileExists(resultFile)
                  /\ ResultMetrics = [cells |-> c, levels |-> l,
                                      area_um2 |-> Null, warnings |-> Some(0)]
    /\ (lastLine = <<"baseline", "seed">> /\ LastOutcome.success) =>
          /\ fileExists(baselineFile) /\ fileExists(resultFile)
          /\ BaselineMetrics = ResultMetrics
    /\ (lastLine = <<"verify">> /\ fileExists(baselineFile) /\ fileExists(resultFile)
          /\ ResultMetrics.cells <= BaselineMetrics.cells
          /\ ResultMetrics.levels = BaselineMetrics.levels) =>
          /\ LastOutcome.success
          /\ Val(LastOutcome.data).accepted
          /\ Val(LastOutcome.data).cells.base = BaselineMetrics.cells
          /\ Val(LastOutcome.data).cells.now = ResultMetrics.cells
          /\ Val(LastOutcome.data).cells.delta = ResultMetrics.cells - BaselineMetrics.cells

\* run at time 0, baseline-seed, run at time 2 with one cell less, verify
C6_SecondRunAccepted ==
    /\ lastLine = <<"verify">>
    /\ clock = 4
    /\ fileExists(baselineFile) /\ fileExists(resultFile)
    /\ JsonParse(Val(baselineFile)).timestamp_utc = 0
    /\ JsonParse(Val(resultFile)).provenance.timestamp_utc = 2
    /\ Val(LastOutcome.data).accepted
    /\ Val(LastOutcome.data).cells.base = 1
    /\ Val(LastOutcome.data).cells.now = 0
    /\ Val(LastOutcome.data).cells.delta = -1

\* C7: a subprocess killed at the timeout makes a failed run with a nonzero
\* exit code: the exit code captured for it is never 0 and run does not
\* report success.
C7_TimedOutRunFails ==
    (lastLine = <<"run">> /\ TimedOut(events)) =>
        /\ Val(child.settled).exitCode # 0
        /\ ~LastOutcome.success

\* C8: when cells or levels cannot be found in the output, run fails with
\* the parse failure and exit code 1, writes no result, and still writes the
\* combined log (stdout, separator, stderr) of that run.
C8_ParseFailureWritesLog ==
    (lastLine = <<"run">> /\ IsNull(parseMetrics(Val(child.settled)))) =>
        /\ LastOutcome = [success |-> FALSE, message |-> MsgParseFailed,
                          exitCode |-> Some(1), data |-> Null]
        /\ ~fileExists(resultFile)
        /\ logFile = Some(Val(child.settled).stdout \o <<StderrSeparator>>
                          \o Val(child.settled).stderr)

\* C9: run checks that the script exists, then that the directory structure
\* is valid, then that the tool is available; it reports the failure of the
\* first of them that is violated, and when one is violated it spawns no
\* subprocess and creates no directory and no file.
C9_RunPreconditionsInOrder ==
    [][lastLine' = <<"run">> =>
          LET scriptOk == recipesDir = "dir" /\ ~IsNull(recipeFile)
              dirsOk == rtlDir = "dir" /\ recipesDir # "file"
              scriptErrors == {<<"Recipe file not found">>, <<"exists but is not a file">>}
              outcome == Val(lastResult')
              untouched == /\ spawned' = << >>
                           /\ dirVars' = dirVars
                           /\ recipeFile' = recipeFile
                           /\ baselineFile' = baselineFile
                           /\ resultFile' = resultFile
                           /\ logFile' = logFile
          IN /\ ~scriptOk =>
                   (~outcome.success /\ outcome.message \in scriptErrors /\ untouched)
             /\ (scriptOk /\ ~dirsOk) =>
                   /\ ~outcome.success /\ untouched
                   /\ outcome.message \notin scriptErrors \cup {MsgYosysNotFound}
                   /\ outcome.message[1] \in {"rtl/ directory not found",
                                              "rtl exists but is not a directory"}
             /\ outcome.message = MsgYosysNotFound =>
                   (scriptOk /\ dirsOk /\ ~outcome.success /\ untouched)
             /\ spawned' # << >> => (scriptOk /\ dirsOk)]_vars

\* run reported the missing script of a project that has no rtl directory either
C9_ScriptReportedBeforeDirs ==
    /\ lastLine = <<"run">>
    /\ rtlDir # "dir"
    /\ IsNull(recipeFile)
    /\ LastOutcome.message = <<"Recipe file not found">>
    /\ ~edaDirs

\* C10: after each command the exit status is 0 if the command succeeded and
\* 1 if it reported a failure; no other code is used and every failure
\* carries exitCode 1.
C10_ExitStatusFollowsOutcome ==
    ~IsNull(lastResult) =>
        /\ LastOutcome.success => processExitCode \in {Null, Some(0)}
        /\ ~LastOutcome.success =>
              (processExitCode = Some(1) /\ LastOutcome.exitCode = Some(1))

\* the output handed to parseMetrics, its combined text (stdout, then
\* stderr), and what the call returned
CallCombined == Val(argument).stdout \o Val(argument).stderr
CallHas(kind) == \E i \in 1..Len(CallCombined) : CallCombined[i].kind = kind
CallFirst(kind, n) ==
    \E i \in 1..Len(CallCombined) :
        /\ CallCombined[i] = [kind |-> kind, val |-> n]
        /\ \A j \in 1..(i - 1) : CallCombined[j].kind # kind
ParseReturned == ~IsNull(argument) /\ ~IsNull(returned)

\* C11: for an output whose combined text holds a cells line and a levels
\* line, parseMetrics returns a record whose cells and levels are the numbers
\* of the first cells line and of the first levels line, stdout before stderr.
C11_ParseTakesFirstCellsAndLevels ==
    (ParseReturned /\ CallHas("cells") /\ CallHas("levels")) =>
        /\ ~IsNull(Val(returned))
        /\ CallFirst("cells", Val(Val(returned)).cells)
        /\ CallFirst("levels", Val(Val(returned)).levels)

\* parseMetrics took the cells of stdout, not the other number in stderr
C11_CellsOfStdoutBeforeStderr ==
    /\ ParseReturned
    /\ \E i \in 1..Len(Val(argument).stdout) : Val(argument).stdout[i] = CellsLine(1)
    /\ Val(argument).stderr = <<CellsLine(0)>>
    /\ CallHas("levels")
    /\ ~IsNull(Val(returned))
    /\ Val(Val(returned)).cells = 1

\* C12: parseMetrics returns null, never a record filled with zeros, when
\* the combined output has no cells line or no levels line, whatever area
\* or warning lines it has.
C12_ParseNullWithoutCellsOrLevels ==
    (ParseReturned /\ (~CallHas("cells") \/ ~CallHas("levels"))) =>
        IsNull(Val(returned))

\* parseMetrics returned null for an output with cells, an area and a
\* warning and no levels
C12_NullDespiteAreaAndWarning ==
    /\ ParseReturned
    /\ CallHas("cells") /\ CallHas("area") /\ CallHas("warning")
    /\ ~CallHas("levels")
    /\ IsNull(Val(returned))

\* the sum of the numbers of the warning lines at the indices in `idx`
RECURSIVE WarningTotal(_)
WarningTotal(idx) ==
    IF idx = {} THEN 0
    ELSE LET i == CHOOSE j \in idx : TRUE
         IN CallCombined[i].val + WarningTotal(idx \ {i})

\* C13: the warnings of a parsed record are the sum of the numbers of all
\* the warning lines of stdout and stderr, not how many there are.
C13_WarningsAreSummed ==
    (ParseReturned /\ ~IsNull(Val(returned))) =>
        Val(Val(returned)).warnings =
            Some(WarningTotal({i \in 1..Len(CallCombined) : CallCombined[i].kind = "warning"}))

\* "Warning: 2" in stdout and "Warning: 1" in stderr gave 3
C13_TwoAndOneGiveThree ==
    /\ ParseReturned
    /\ \E i \in 1..Len(Val(argument).stdout) : Val(argument).stdout[i] = WarningLine(2)
    /\ Val(argument).stderr = <<WarningLine(1)>>
    /\ Cardinality({i \in 1..Len(CallCombined) : CallCombined[i].kind = "warning"}) = 2
    /\ ~IsNull(Val(returned))
    /\ Val(Val(returned)).warnings = Some(3)

\* C14: a parsed record of an output with no area line and no warning line
\* has a null area (not zero) and zero warnings (not null).
C14_AbsentAreaNullAbsentWarningsZero ==
    (ParseReturned /\ ~IsNull(Val(returned))) =>
        /\ ~CallHas("area") => Val(Val(returned)).area_um2 = Null
        /\ ~CallHas("warning") => Val(Val(returned)).warnings = Some(0)

\* a record was parsed from an output with neither area nor warning
C14_ParsedWithoutAreaAndWarning ==
    /\ ParseReturned
    /\ ~CallHas("area") /\ ~CallHas("warning")
    /\ ~IsNull(Val(returned))
    /\ Val(Val(returned)).area_um2 = Null
    /\ Val(Val(returned)).warnings = Some(0)

\* C15: the outcome of verify carries the cells and levels of the baseline
\* as base, those of the last run as now, and as deltas the last run minus
\* the baseline.
C15_OutcomeCarriesBaseNowDelta ==
    (lastLine = <<"verify">> /\ fileExists(baselineFile) /\ fileExists(resultFile)) =>
        /\ ~IsNull(LastOutcome.data)
        /\ Val(LastOutcome.data).cells.base = BaselineMetrics.cells
        /\ Val(LastOutcome.data).cells.now = ResultMetrics.cells
        /\ Val(LastOutcome.data).cells.delta = ResultMetrics.cells - BaselineMetrics.cells
        /\ Val(LastOutcome.data).levels.base = BaselineMetrics.levels
        /\ Val(LastOutcome.data).levels.now = ResultMetrics.levels
        /\ Val(LastOutcome.data).levels.delta = ResultMetrics.levels - BaselineMetrics.levels

\* verify found one cell less and the same levels: deltas -1 and 0, accepted
C15_OneCellLessSameLevels ==
    /\ lastLine = <<"verify">>
    /\ fileExists(baselineFile) /\ fileExists(resultFile)
    /\ BaselineMetrics.cells = 1 /\ ResultMetrics.cells = 0
    /\ BaselineMetrics.levels = 1 /\ ResultMetrics.levels = 1
    /\ Val(LastOutcome.data).cells.delta = -1
    /\ Val(LastOutcome.data).levels.delta = 0
    /\ Val(LastOutcome.data).accepted

\* ---------------------------------------------------------------- C16
SeedLine == <<"baseline", "seed">>

\* the content of a file is an EdaResult with its two numbers
IsEdaResultText(text) ==
    /\ JsonValid(text)
    /\ Has(JsonParse(text), "provenance")
    /\ Has(JsonParse(text), "run")
    /\ Has(JsonParse(text), "metrics")
    /\ Has(JsonParse(text).metrics, "cells")
    /\ Has(JsonParse(text).metrics, "levels")

\* the baseline the claim describes for the result in build/eda/result.json
SeededCopy ==
    LET result == JsonParse(Val(resultFile))
    IN [metrics |-> result.metrics,
        timestamp_utc |-> result.provenance.timestamp_utc,
        run_info |-> [script_path |-> result.run.script_path,
                      seed |-> result.run.seed]]

\* C16: baseline seed is unconditional and idempotent. Whenever a Result
\* exists, whatever the baseline file held before, a seed that reports
\* success has written a baseline whose metrics, timestamp, script path and
\* seed are those of the Result (a seed that reports failure could not
\* write and left the file as it was); a successful seed that follows a
\* successful seed leaves the baseline record identical.
C16_SeedCopiesResultWhateverTheBaseline ==
    [][(lastLine' = SeedLine /\ fileExists(resultFile) /\ IsEdaResultText(Val(resultFile)))
       => /\ resultFile' = resultFile
          /\ IF Val(lastResult').success
             THEN baselineFile' = Some(JsonStringify(SeededCopy))
             ELSE baselineFile' = baselineFile
          /\ (lastLine = SeedLine /\ Val(lastResult).success /\ Val(lastResult').success)
                => baselineFile' = baselineFile]_vars

\* the second command of a session was a seed that succeeded: the baseline
\* holds the seed 1 and the metrics of the last run
C16_SeededAgainWithSeedOne ==
    /\ lastLine = SeedLine
    /\ clock >= 2
    /\ Val(lastResult).success
    /\ fileExists(resultFile) /\ IsEdaResultText(Val(resultFile))
    /\ JsonParse(Val(resultFile)).run.seed = Some(1)
    /\ baselineFile = Some(JsonStringify(SeededCopy))

\* ---------------------------------------------------------------- C17
\* the content of a persisted record is malformed: no valid JSON, or no
\* numeric cells and levels
IsMalformedText(text) ==
    \/ ~JsonValid(text)
    \/ ~Has(JsonParse(text), "metrics")
    \/ ~Has(JsonParse(text).metrics, "cells")
    \/ ~Has(JsonParse(text).metrics, "levels")

\* the command reads a file that exists and is malformed
ReadsMalformed(line) ==
    \/ /\ line \in {SeedLine, <<"last">>}
       /\ fileExists(resultFile) /\ IsMalformedText(Val(resultFile))
    \/ /\ line = <<"verify">>
       /\ fileExists(baselineFile) /\ fileExists(resultFile)
       /\ IsMalformedText(Val(baselineFile)) \/ IsMalformedText(Val(resultFile))

\* C17: a malformed persisted Baseline or Result makes verify, baseline
\* seed and last report a failure with exit 1 and write no file; in
\* particular seed never copies a malformed Result into the baseline.
C17_MalformedRecordsAreRejected ==
    [][ReadsMalformed(lastLine')
       => /\ ~Val(lastResult').success
          /\ Val(lastResult').exitCode = Some(1)
          /\ baselineFile' = baselineFile
          /\ resultFile' = resultFile]_vars

\* ---------------------------------------------------------------- C18
InitLine == <<"recipe", "init">>
ForcedInitLine == <<"recipe", "init", "--force">>

\* recipe init could not create the directories or write the file
InitIoFailure(result) ==
    /\ ~result.success
    /\ result.exitCode = Some(1)
    /\ result.message = <<"Error creating recipe:">>

C18_InitRefusedCustomRecipe ==
    /\ lastLine = InitLine
    /\ ~Val(lastResult).success
    /\ Val(lastResult).message = MsgRecipeExists
    /\ recipeFile = Some("custom")

\* ---------------------------------------------------------------- C19
ListLine == <<"recipe", "list">>

\* the files of recipes/ (none when it is missing or no directory)
FilesOfRecipesDir ==
    IF recipesDir # "dir" THEN {}
    ELSE {recipeEntries[i] : i \in DOMAIN recipeEntries}
         \cup (IF fileExists(recipeFile)
               THEN {[name |-> "synth_resyn2.ys", mtime |-> recipeMtime, readable |-> TRUE]}
               ELSE {})

\* those with the script extension that can be read
ReadableScripts == {f \in FilesOfRecipesDir : endsWithYs(f.name) /\ f.readable}

\* the names the last command displayed, in the order displayed
ListedNames ==
    IF Val(lastResult).message[1] = "Available recipes:"
    THEN Tail(Val(lastResult).message)
    ELSE << >>

MtimeOfListed(i) == (CHOOSE f \in ReadableScripts : f.name = ListedNames[i]).mtime

\* C19: recipe list succeeds whatever the state of the recipes directory
\* (missing, a file, empty, populated); it lists each readable file with
\* the script extension once and nothing else, no entry before one that
\* was modified later.
C19_ListIsReadableScriptsNewestFirst ==
    lastLine = ListLine
    => /\ Val(lastResult).success
       /\ Val(lastResult).exitCode = Null
       /\ Len(ListedNames) = Cardinality(ReadableScripts)
       /\ {ListedNames[i] : i \in DOMAIN ListedNames} = {f.name : f \in ReadableScripts}
       /\ \A i \in DOMAIN ListedNames : \A j \in DOMAIN ListedNames :
             i < j => MtimeOfListed(i) >= MtimeOfListed(j)

\* three scripts listed against the order of the directory: the forced
\* template first, then b.ys, then the older a.ys; an unreadable or
\* differently named file would not be there
C19_ListedThreeNewestFirst ==
    /\ lastLine = ListLine
    /\ ListedNames = <<"synth_resyn2.ys", "b.ys", "a.ys">>
    /\ recipeEntries[1].name = "a.ys"
    /\ MtimeOfListed(2) > MtimeOfListed(3)

\* ---------------------------------------------------------------- C20
\* the line parseArgs was called on, and the tokens after the command
CallLine == Val(argument)
CallRemaining == IF CallLine = << >> THEN << >> ELSE Tail(CallLine)
ArgsReturned == Val(returned)

IsOptionToken(token) == token \in {"--force", "--verbose", "--seed=1", "--seed=x"}
IsNumeral(token) == token \in {"1", "2"}
NumeralValue(token) == IF token = "1" THEN 1 ELSE 2

\* every --seed of the line is followed by its number
SeedsHaveValues ==
    \A i \in DOMAIN CallRemaining :
        CallRemaining[i] = "--seed"
        => i < Len(CallRemaining) /\ IsNumeral(CallRemaining[i + 1])

\* on such a line: the positions of the options and of the seed values
ConsumedAt(i) ==
    \/ IsOptionToken(CallRemaining[i])
    \/ CallRemaining[i] = "--seed"
    \/ i > 1 /\ CallRemaining[i - 1] = "--seed"

RECURSIVE KeptFrom(_)
\* the tokens that are not consumed, from position i on, in order
KeptFrom(i) ==
    IF i > Len(CallRemaining) THEN << >>
    ELSE (IF ConsumedAt(i) THEN << >> ELSE <<CallRemaining[i]>>) \o KeptFrom(i + 1)

\* the seed options of the line, as (position, number), `--seed N` and
\* `--seed=N` alike
SeedsGiven ==
    {<<i, NumeralValue(CallRemaining[i + 1])>> :
        i \in {j \in DOMAIN CallRemaining : CallRemaining[j] = "--seed"}}
    \cup {<<i, 1>> : i \in {j \in DOMAIN CallRemaining : CallRemaining[j] = "--seed=1"}}
    \cup {<<i, NaN>> : i \in {j \in DOMAIN CallRemaining : CallRemaining[j] = "--seed=x"}}

RECURSIVE IsSubsequence(_, _)
IsSubsequence(short, long) ==
    IF short = << >> THEN TRUE
    ELSE IF long = << >> THEN FALSE
    ELSE IF Head(short) = Head(long) THEN IsSubsequence(Tail(short), Tail(long))
    ELSE IsSubsequence(short, Tail(long))

\* C20: parseArgs takes the first token as the command; the positional
\* arguments are tokens of the rest of the line in their order, none of
\* them --force, --verbose or --seed=N, and --seed only when it ends the
\* line without a value; on a line where every --seed has its number,
\* force and verbose tell whether the option was given, the seed is the
\* integer of the last seed option, and the positional arguments are
\* exactly the other tokens in order, so that no seed value is among them.
C20_ParseArgsSplitsCommandOptionsPositionals ==
    (~IsNull(argument) /\ ~IsNull(returned) /\ Val(argument) \in Seq(ArgTokens))
    => /\ ArgsReturned.command = (IF CallLine = << >> THEN "" ELSE CallLine[1])
       /\ IsSubsequence(ArgsReturned.args, CallRemaining)
       /\ \A k \in DOMAIN ArgsReturned.args :
             /\ ~IsOptionToken(ArgsReturned.args[k])
             /\ ArgsReturned.args[k] = "--seed"
                  => /\ k = Len(ArgsReturned.args)
                     /\ CallRemaining[Len(CallRemaining)] = "--seed"
       /\ SeedsHaveValues
            => /\ ArgsReturned.args = KeptFrom(1)
               /\ ArgsReturned.options.force
                    = (\E i \in DOMAIN CallRemaining : CallRemaining[i] = "--force")
               /\ ArgsReturned.options.verbose
                    = (\E i \in DOMAIN CallRemaining : CallRemaining[i] = "--verbose")
               /\ IF SeedsGiven = {}
                  THEN IsNull(ArgsReturned.options.seed)
                  ELSE \E given \in SeedsGiven :
                          /\ \A other \in SeedsGiven : other[1] <= given[1]
                          /\ ArgsReturned.options.seed = Some(given[2])

\* `run 2 --seed 1`: the positional 2 is kept, the seed value 1 is not
C20_SeedValueConsumedPositionalKept ==
    /\ argument = Some(<<"run", "2", "--seed", "1">>)
    /\ returned = Some([command |-> "run", args |-> <<"2">>,
                        options |-> [force |-> FALSE, verbose |-> FALSE, seed |-> Some(1)]])

\* ---------------------------------------------------------------- C21
Validated == Val(returned)

\* what the claim says of the recipes and the build directory
MissingRecipesWarnsMissingBuildSilent ==
    /\ recipesDir = "missing"
         => /\ Validated.valid = (rtlDir = "dir")
            /\ Len(Validated.warnings) >= 1
            /\ Validated.warnings[1] = "recipes/ directory not found"
    /\ buildDir = "missing"
         => /\ Len(Validated.warnings) = (IF recipesDir = "missing" THEN 1 ELSE 0)
            /\ Len(Validated.errors) = (IF rtlDir = "dir" THEN 0 ELSE 1)
                                        + (IF recipesDir = "file" THEN 1 ELSE 0)

\* C21 as stated: the validation is invalid exactly when the RTL
\* directory is missing or not a directory; a missing recipes directory
\* only warns; a missing build directory adds nothing.
C21_InvalidExactlyWhenRtlUnusable ==
    ~IsNull(returned)
    => /\ Validated.valid = (rtlDir = "dir")
       /\ MissingRecipesWarnsMissingBuildSilent

\* C21 as amended: the validation is invalid exactly when the RTL directory
\* is missing or not a directory, or the recipes path exists and is not a
\* directory; a missing recipes directory only adds a warning and leaves
\* the result valid when rtl/ is a directory; a missing build directory
\* adds neither error nor warning.
C21_InvalidWhenRtlOrRecipesUnusable ==
    ~IsNull(returned)
    => /\ Validated.valid = (rtlDir = "dir" /\ recipesDir # "file")
       /\ MissingRecipesWarnsMissingBuildSilent

\* rtl/ alone: valid, with the one warning about recipes/
C21_ValidWithRecipesWarning ==
    /\ returned = Some([valid |-> TRUE, errors |-> << >>,
                        warnings |-> <<"recipes/ directory not found">>])
    /\ rtlDir = "dir" /\ recipesDir = "missing" /\ buildDir = "missing"

\* ---------------------------------------------------------------- C22
\* C22: the last-run slot always holds the latest successful run. The
\* result file changes only in a run that reports success, and then holds
\* the metrics that run parsed (so at any time it holds those of the latest
\* successful run); a successful last shows exactly the record in the file
\* and verify compares exactly its metrics.
C22_SlotHoldsLatestSuccessfulRun ==
    [][/\ resultFile' # resultFile
            => /\ lastLine' = <<"run">>
               /\ Val(lastResult').success
       /\ (lastLine' = <<"run">> /\ Val(lastResult').success)
            => /\ fileExists(resultFile')
               /\ JsonParse(Val(resultFile')).metrics = Val(Val(lastResult').data).metrics
       /\ (lastLine' = <<"last">> /\ Val(lastResult').success)
            => Val(lastResult').data = Some(JsonParse(Val(resultFile)))
       /\ (lastLine' = <<"verify">> /\ ~IsNull(Val(lastResult').data))
            => /\ Val(Val(lastResult').data).cells.now = JsonParse(Val(resultFile)).metrics.cells
               /\ Val(Val(lastResult').data).levels.now = JsonParse(Val(resultFile)).metrics.levels]_vars

\* ---------------------------------------------------------------- C23
\* the seed the operator supplied on a run line: Null when there is no
\* seed option with a value, Some(N) (NaN when N is no number) otherwise
SuppliedSeed(line) ==
    CASE line = <<"run", "--seed", "0">> -> Some(0)
      [] line = <<"run", "--seed", "1">> -> Some(1)
      [] line = <<"run", "--seed=2">> -> Some(2)
      [] line = <<"run", "--seed", "x">> -> Some(NaN)
      [] OTHER -> Null

IsRunLine(line) == line # << >> /\ line[1] = "run"

C24_AtMostOneSpawnPerInvocation ==
    [][/\ clock' = clock + 1
       /\ ~IsNull(lastResult')
       /\ Len(spawned') <= 1
       /\ ~IsRunLine(lastLine') => spawned' = << >>
       /\ ~Val(lastResult').success
            => /\ Val(lastResult').exitCode = Some(1)
               /\ Len(spawned') <= 1]_vars

\* a run whose output did not parse has failed after one spawn
C24_ParseFailureAfterOneSpawn ==
    /\ lastLine = <<"run">>
    /\ ~Val(lastResult).success
    /\ Val(lastResult).message = MsgParseFailed
    /\ Len(spawned) = 1

\* ---------------------------------------------------------------- C25
\* the position of the first 'close' or 'error' among the events of the
\* child (every child of the model ends)
FirstEnd ==
    CHOOSE k \in DOMAIN events :
        /\ events[k].type \in {"close", "error"}
        /\ \A j \in 1..(k - 1) : events[j].type \notin {"close", "error"}

RECURSIVE ChunksBefore(_, _)
\* the chunks of a stream among the events before position k, concatenated
\* in the order of arrival
ChunksBefore(stream, k) ==
    IF k <= 1 THEN << >>
    ELSE ChunksBefore(stream, k - 1)
         \o (IF events[k - 1].type = stream THEN events[k - 1].data ELSE << >>)

\* run is suspended until the promise settles, and the promise settles at
\* the first 'close' or 'error' with the stdout received so far and the
\* given stderr; the outcome of run is that of parsing this text
ResumesOnCapture(stderrText) ==
    /\ IsNull(child.settled)
         => /\ lastLine = << >>
            /\ IsNull(lastResult)
            /\ \A j \in 1..delivered : events[j].type \notin {"close", "error"}
    /\ ~IsNull(child.settled)
         => /\ FirstEnd <= delivered
            /\ Val(child.settled).stdout = ChunksBefore("stdout", FirstEnd)
            /\ Val(child.settled).stderr = stderrText
    /\ lastLine # << >>
         => LET parsed == parseMetrics([stdout |-> ChunksBefore("stdout", FirstEnd),
                                        stderr |-> stderrText, exitCode |-> 0])
            IN /\ (Val(lastResult).message = MsgParseFailed) = IsNull(parsed)
               /\ Val(lastResult).success
                    => Val(Val(lastResult).data).metrics = Val(parsed)

\* the promise of runYosys is settled once
SettledOnce == [][~IsNull(child.settled) => child.settled' = child.settled]_vars

\* C25 as stated: run resumes only after 'close' or 'error' (a timeout
\* closes the child), the captured result is delivered once even when both
\* callbacks fire, nothing is parsed before, and the text parsed is all the
\* stdout chunks and all the stderr chunks received, each stream in its
\* order of arrival.
C25_ParsesAllChunksAfterTermination ==
    /\ [](ResumesOnCapture(ChunksBefore("stderr", FirstEnd)))
    /\ SettledOnce

\* C25 as amended: as above, but when the 'error' callback fires first the
\* stderr part of the text is the message of the error, in place of the
\* stderr chunks received.
C25_ParsesCaptureAfterTermination ==
    /\ [](ResumesOnCapture(IF events[FirstEnd].type = "close"
                           THEN ChunksBefore("stderr", FirstEnd)
                           ELSE <<ErrorMessage>>))
    /\ SettledOnce

\* 'error' and 'close' have both fired after two chunks, and run has
\* resumed on the capture of the first of them
C25_ErrorThenCloseDeliveredOnce ==
    /\ delivered = Len(events)
    /\ events[FirstEnd].type = "error"
    /\ FirstEnd = 3
    /\ lastLine = <<"run">>
    /\ Val(child.settled).exitCode = 1

\* ---------------------------------------------------------------- C26
\* C26: verify and last are read-only. Whatever their outcome (accepted,
\* rejected, a failure), the baseline file, the last-run result file and
\* the log file are after the command what they were before it; a verify
\* that follows a verify gives the same outcome again.
C26_VerifyAndLastReadOnly ==
    [][lastLine' \in {<<"verify">>, <<"last">>}
       => /\ baselineFile' = baselineFile
          /\ resultFile' = resultFile
          /\ logFile' = logFile
          /\ (lastLine = <<"verify">> /\ lastLine' = <<"verify">>)
               => lastResult' = lastResult]_vars

\* a verify has accepted a run that is better than the baseline, with the
\* log of the run in place: the baseline is still the old one
C26_AcceptedKeptOldBaseline ==
    /\ lastLine = <<"verify">>
    /\ Val(lastResult).success
    /\ fileExists(logFile)
    /\ BaselineMetrics # ResultMetrics

\* ---------------------------------------------------------------- C27
\* C27: past its preconditions, whether run succeeds is decided by parsing
\* the captured output, not by the exit code. When cells and levels are not
\* both found the run fails with the parse failure; when they are found,
\* also for a child that exited nonzero or could not be started, the run
\* succeeds with a Result that is persisted and whose run.exit_code is the
\* captured exit code (the only other end is a write that throws, reported
\* as 'Error running Yosys:' whatever the exit code was).
C27_SuccessDecidedByParseNotExitCode ==
    lastLine = <<"run">> =>
        LET yosysOutput == Val(child.settled)
            metrics == parseMetrics(yosysOutput)
        IN /\ IsNull(metrics) => LastOutcome = Failure(MsgParseFailed)
           /\ ~IsNull(metrics) =>
                \/ /\ LastOutcome.success
                   /\ Val(LastOutcome.data).metrics = Val(metrics)
                   /\ Val(LastOutcome.data).run.exit_code = yosysOutput.exitCode
                   /\ resultFile = Some(JsonStringify(Val(LastOutcome.data)))
                \/ LastOutcome = Failure(<<"Error running Yosys:">>)

\* a child that closed with a nonzero exit code after printing its report:
\* the run succeeded and the persisted Result records that code
C27_NonzeroExitSucceeded ==
    /\ lastLine = <<"run">>
    /\ events[FirstEnd].type = "close"
    /\ Val(child.settled).exitCode # 0
    /\ LastOutcome.success
    /\ fileExists(resultFile)
    /\ JsonParse(Val(resultFile)).run.exit_code = Val(child.settled).exitCode

\* ---------------------------------------------------------------- C28
\* the seed in the argument list of the last spawn: Null when the list has
\* no `-p` parameter
PassedSeed == IF Len(spawned[1]) = 5 THEN Some(spawned[1][5]) ELSE Null

\* C28: the seed recorded in the Result of a successful run (run.seed) is
\* the seed that was passed to the subprocess, for every integer seed, 0
\* included, and is null exactly when no seed parameter was passed; the
\* baseline seeded from a Result carries the same seed in run_info.seed.
C28_RecordedSeedIsPassedSeed ==
    /\ (IsRunLine(lastLine) /\ LastOutcome.success)
         => JsonParse(Val(resultFile)).run.seed = PassedSeed
    /\ (lastLine = <<"baseline", "seed">> /\ LastOutcome.success)
         => JsonParse(Val(baselineFile)).run_info.seed
              = JsonParse(Val(resultFile)).run.seed

\* ---------------------------------------------------------------- C29
\* C29: against a baseline with zero cells verify does not fail: it returns
\* a complete VerificationOutcome whose verdict follows from the two
\* inequalities alone (accepted exactly when the last run has zero cells and
\* no more levels than the baseline); the division by zero shows only in
\* the percentage delta, which is not a finite number.
C29_ZeroCellBaselineStillVerifies ==
    (/\ lastLine = <<"verify">>
     /\ fileExists(baselineFile) /\ fileExists(resultFile)
     /\ BaselineMetrics.cells = 0)
    => /\ ~IsNull(LastOutcome.data)
       /\ LET outcome == Val(LastOutcome.data)
              accepted == ResultMetrics.cells = 0
                          /\ ResultMetrics.levels <= BaselineMetrics.levels
          IN /\ outcome.accepted = accepted
             /\ LastOutcome.success = accepted
             /\ LastOutcome.exitCode = Some(IF accepted THEN 0 ELSE 1)
             /\ outcome.cells = [base |-> 0, now |-> ResultMetrics.cells,
                                 delta |-> ResultMetrics.cells,
                                 delta_pct |-> [finite |-> FALSE,
                                                val |-> ResultMetrics.cells]]
             /\ outcome.levels = [base |-> BaselineMetrics.levels,
                                  now |-> ResultMetrics.levels,
                                  delta |-> ResultMetrics.levels - BaselineMetrics.levels]

\* a verify against a baseline with zero cells has accepted a run with zero
\* cells (0 / 0 as percentage delta)
C29_ZeroAgainstZeroAccepted ==
    /\ lastLine = <<"verify">>
    /\ fileExists(baselineFile) /\ fileExists(resultFile)
    /\ BaselineMetrics.cells = 0
    /\ ResultMetrics.cells = 0
    /\ LastOutcome.success
    /\ ~Val(LastOutcome.data).cells.delta_pct.finite
====
